---- MODULE Spec2Model ----
(***************************************************************************)
(* Model of technitium_exporter.py: TechnitiumCollector._call_api and      *)
(* TechnitiumCollector.collect.                                            *)
(*                                                                         *)
(* JSON objects (Python dicts) are functions from key strings to values,   *)
(* JSON arrays and Python strings that are inspected character by          *)
(* character are sequences.  A value that may or may not be an object (the *)
(* body of a reply, its "response" member) is tagged: Obj(d) or Null.      *)
(***************************************************************************)
EXTENDS Integers, Sequences, FiniteSets, TLC

VARIABLES
    TECHNITIUM_TOKEN,  \* the access token read from the environment (line 23)
    pc,                \* position of the collect generator
    topIdx,            \* index of the top-N loop (line 235)
    out,               \* the families yielded by the current cycle, in order
    calls,             \* the queries issued by the current cycle and what each returned
    last,              \* the most recent _call_api invocation: upstream outcome and result
    logged             \* the logger.error records written by the most recent step

vars == <<TECHNITIUM_TOKEN, pc, topIdx, out, calls, last, logged>>

(***************************************************************************)
(* Bounds of the model.                                                    *)
(***************************************************************************)
MaxChartLen == 2   \* longest labels / data array of a chart
MaxLeases == 3     \* longest lease list
MaxMsgLen == 2     \* longest exception message, in characters
MaxTokenLen == 2   \* longest access token, in characters
MaxElapsed == 1    \* largest elapsed time the clock reports

(***************************************************************************)
(* Python values.                                                          *)
(***************************************************************************)
EmptyDict == <<>>
Obj(d) == [t |-> "obj", v |-> d]
Null == [t |-> "null"]
IsDict(x) == x.t = "obj"

\* dict.get(key, default)
Get(d, k, default) == IF k \in DOMAIN d THEN d[k] ELSE default

\* truth value of a dict or a list: non-empty
Truthy(x) == DOMAIN x # {}

SERVER_LABEL == "technitium"
REDACTION == <<"R", "E", "D", "A", "C", "T", "E", "D">>

\* str.replace(old, new): the non-overlapping occurrences of old, found
\* left to right, are each replaced by new.  For an empty old, new is
\* inserted before every character and at the end.
RECURSIVE ReplaceFrom(_, _, _, _)
ReplaceFrom(s, old, new, i) ==
    IF old = <<>>
    THEN IF i > Len(s) THEN new
         ELSE new \o <<s[i]>> \o ReplaceFrom(s, old, new, i + 1)
    ELSE IF i > Len(s) THEN <<>>
         ELSE IF i + Len(old) - 1 <= Len(s) /\ SubSeq(s, i, i + Len(old) - 1) = old
              THEN new \o ReplaceFrom(s, old, new, i + Len(old))
              ELSE <<s[i]>> \o ReplaceFrom(s, old, new, i + 1)

Replace(s, old, new) == ReplaceFrom(s, old, new, 1)

\* "needle in haystack" for strings
Contains(s, t) ==
    \E i \in 1..(Len(s) - Len(t) + 1) : SubSeq(s, i, i + Len(t) - 1) = t

\* lines 71-73 and 278-280: the token is replaced in the exception's text
Sanitize(token, msg) ==
    IF token # <<>> /\ Len(token) > 0
    THEN Replace(msg, token, REDACTION)
    ELSE msg

(***************************************************************************)
(* _call_api (lines 47-76).  An upstream outcome o is what session.get,    *)
(* raise_for_status and resp.json() produce for one request:               *)
(*   [kind |-> "transport", msg]   session.get raises                      *)
(*   [kind |-> "http_error", msg]  raise_for_status raises                 *)
(*   [kind |-> "not_json", msg]    resp.json() raises                      *)
(*   [kind |-> "json", body]       resp.json() returns body (tagged)       *)
(***************************************************************************)
ATTR_MSG == <<"object has no attribute 'get'">>

Return(x, l) == [kind |-> "return", value |-> x, log |-> l]
Raise(cls, m) == [kind |-> "raise", exc |-> cls, msg |-> m]

\* lines 62-68: the body of the try statement
TryBody(endpoint, o) ==
    CASE o.kind = "transport" -> Raise("RequestException", o.msg)
      [] o.kind = "http_error" -> Raise("HTTPError", o.msg)
      [] o.kind = "not_json" -> Raise("JSONDecodeError", o.msg)
      [] o.kind = "json" ->
            IF ~IsDict(o.body)
            THEN Raise("AttributeError", ATTR_MSG)
            ELSE IF ~("status" \in DOMAIN o.body.v /\ o.body.v["status"] = "ok")
                 THEN Return(Obj(EmptyDict),
                             <<[site |-> "non-ok", what |-> endpoint, error_msg |-> <<>>]>>)
                 ELSE Return(Get(o.body.v, "response", Obj(EmptyDict)), <<>>)

\* line 69: "except Exception" catches every class derived from Exception
CaughtOnlyRequestErrors(cls) == cls \in {"RequestException", "HTTPError"}

Caught(cls) ==
    cls \in {"RequestException", "HTTPError", "JSONDecodeError",
             "AttributeError", "TypeError", "ValueError"}

\* lines 47-76: what one call returns or raises, and what it logs
CallApi(token, endpoint, o) ==
    LET b == TryBody(endpoint, o) IN
    IF b.kind = "return"
    THEN [raised |-> FALSE, ret |-> b.value, log |-> b.log]
    ELSE IF Caught(b.exc)
         THEN [raised |-> FALSE, ret |-> Obj(EmptyDict),
               log |-> <<[site |-> "_call_api", what |-> endpoint,
                          error_msg |-> Sanitize(token, b.msg)]>>]
         ELSE [raised |-> TRUE, ret |-> Null, log |-> <<>>, exc |-> b.exc, msg |-> b.msg]

(***************************************************************************)
(* Metric families.  A family is its name and its samples in order; a      *)
(* sample is its label values in order and its value.                      *)
(***************************************************************************)
Family(name, samples) == [name |-> name, samples |-> samples]
Sample(labels, value) == [labels |-> labels, value |-> value]

\* float(n) of a JSON integer is the same number
PyFloat(n) == n

\* lines 91-95
UpFamily(stats) ==
    Family("technitium_up",
           <<Sample(<<SERVER_LABEL>>, IF Truthy(stats) THEN 1 ELSE 0)>>)

\* lines 99-107
simple_map ==
    << <<"technitium_dns_clients_window", "totalClients">>,
       <<"technitium_dns_zones", "zones">>,
       <<"technitium_dns_cached_entries", "cachedEntries">>,
       <<"technitium_dns_allowed_zones", "allowedZones">>,
       <<"technitium_dns_blocked_zones", "blockedZones">>,
       <<"technitium_dns_allowlist_zones", "allowListZones">>,
       <<"technitium_dns_blocklist_zones", "blockListZones">> >>

\* lines 108-113
SimpleFamilies(stats) ==
    [i \in 1..Len(simple_map) |->
        Family(simple_map[i][1],
               <<Sample(<<SERVER_LABEL>>, PyFloat(Get(stats, simple_map[i][2], 0)))>>)]

\* lines 121-132
q_map_short ==
    << <<"totalQueries", "all">>,
       <<"totalNoError", "no_error">>,
       <<"totalServerFailure", "servfail">>,
       <<"totalNxDomain", "nxdomain">>,
       <<"totalRefused", "refused">>,
       <<"totalAuthoritative", "authoritative">>,
       <<"totalRecursive", "recursive">>,
       <<"totalCached", "cached">>,
       <<"totalBlocked", "blocked">> >>

q_map ==
    << <<"totalQueries", "all">>,
       <<"totalNoError", "no_error">>,
       <<"totalServerFailure", "servfail">>,
       <<"totalNxDomain", "nxdomain">>,
       <<"totalRefused", "refused">>,
       <<"totalAuthoritative", "authoritative">>,
       <<"totalRecursive", "recursive">>,
       <<"totalCached", "cached">>,
       <<"totalBlocked", "blocked">>,
       <<"totalDropped", "dropped">> >>

\* lines 116-135
QueryFamily(stats) ==
    Family("technitium_dns_queries_window",
           [i \in 1..Len(q_map) |->
               Sample(<<SERVER_LABEL, q_map[i][2]>>, PyFloat(Get(stats, q_map[i][1], 0)))])

\* zip(labels, data): pairs are taken until either sequence is exhausted
RECURSIVE ZipStrict(_, _)
ZipStrict(a, b) ==
    IF Len(a) # Len(b) THEN <<>>
    ELSE IF a = <<>> THEN <<>>
         ELSE << <<Head(a), Head(b)>> >> \o ZipStrict(Tail(a), Tail(b))

RECURSIVE Zip(_, _)
Zip(a, b) ==
    IF a = <<>> \/ b = <<>> THEN <<>>
    ELSE << <<Head(a), Head(b)>> >> \o Zip(Tail(a), Tail(b))

\* lines 139, 153, 167: the condition under which a chart family is built
ChartUsable(chart) == Truthy(chart) /\ Truthy(Get(chart, "datasets", <<>>))

\* lines 138-149, 152-163, 166-177: one chart family, or nothing
ChartFamily(stats_data, key, name) ==
    LET chart == Get(stats_data, key, EmptyDict) IN
    IF ChartUsable(chart)
    THEN LET labels == Get(chart, "labels", <<>>)
             data == Get(chart["datasets"][1], "data", <<>>)
             pairs == Zip(labels, data)
         IN << Family(name,
                      [i \in 1..Len(pairs) |->
                          Sample(<<SERVER_LABEL, pairs[i][1]>>, PyFloat(pairs[i][2]))]) >>
    ELSE <<>>

\* the three chart sections, in source order
Charts ==
    << <<"queryResponseChartData", "technitium_dns_response_type_total">>,
       <<"queryTypeChartData", "technitium_dns_query_type_total">>,
       <<"protocolTypeChartData", "technitium_dns_protocol_queries">> >>

\* the value of the reachability gauge (line 94)
UpWhenPayloadNonEmpty(stats_data) ==
    UpFamily(stats_data)

UpGauge(stats_data) ==
    UpFamily(Get(stats_data, "stats", EmptyDict))

\* lines 88-177: the families of section 1 for a payload that is an object
StatsFamilies(stats_data) ==
    LET stats == Get(stats_data, "stats", EmptyDict) IN
    <<UpGauge(stats_data)>> \o
    (IF Truthy(stats)
     THEN SimpleFamilies(stats) \o <<QueryFamily(stats)>>
          \o ChartFamily(stats_data, Charts[1][1], Charts[1][2])
          \o ChartFamily(stats_data, Charts[2][1], Charts[2][2])
          \o ChartFamily(stats_data, Charts[3][1], Charts[3][2])
     ELSE <<>>)

(***************************************************************************)
(* Section 2: zones (lines 182-203).                                       *)
(***************************************************************************)
Digit == <<"0", "1", "2", "3", "4", "5", "6", "7", "8", "9">>

\* str(n) for a natural number: its decimal digits
RECURSIVE PyStrInt(_)
PyStrInt(n) ==
    IF n < 10 THEN <<Digit[n + 1]>>
    ELSE PyStrInt(n \div 10) \o <<Digit[(n % 10) + 1]>>

\* str(b).lower() for a boolean
PyStrBoolLower(b) == IF b THEN "true" ELSE "false"

\* lines 193-202: the sample of one zone; an info sample carries the info
\* fields as further labels and has the value 1
ZoneSample(zone) ==
    Sample(<<SERVER_LABEL,
             Get(zone, "name", "unknown"),
             Get(zone, "type", "unknown"),
             PyStrBoolLower(Get(zone, "disabled", FALSE)),
             PyStrBoolLower(Get(zone, "internal", FALSE)),
             PyStrInt(Get(zone, "soaSerial", 0))>>, 1)

\* line 186: the condition under which the zone family is built
ZonesUsableAlways(zones_list) == TRUE

ZonesUsable(zones_list) == Truthy(zones_list)

\* lines 185-203
ZoneFamilies(zones_data) ==
    LET zones_list == Get(zones_data, "zones", <<>>) IN
    IF ZonesUsable(zones_list)
    THEN << Family("technitium_zone",
                   [i \in 1..Len(zones_list) |-> ZoneSample(zones_list[i])]) >>
    ELSE <<>>

(***************************************************************************)
(* Section 3: DHCP leases (lines 208-230).  counts is the nested dict of   *)
(* line 211 in insertion order: a sequence of scopes, each with the        *)
(* sequence of its lease types and their counts.                           *)
(***************************************************************************)
\* the first of the positions I of a sequence, 0 when there is none
First(I) == IF I = {} THEN 0 ELSE CHOOSE i \in I : \A j \in I : i <= j

\* line 217: counts[scope][ltype] = counts[scope].get(ltype, 0) + 1
BumpType(type_map, ltype) ==
    LET k == First({i \in DOMAIN type_map : type_map[i].ltype = ltype}) IN
    IF k = 0
    THEN Append(type_map, [ltype |-> ltype, count |-> 1])
    ELSE [type_map EXCEPT ![k].count = @ + 1]

\* lines 213-217, keyed by scope alone: the lease type is not distinguished
CountLeaseByScopeOnly(counts, lease) ==
    LET scope == Get(lease, "scope", "unknown")
        k == First({i \in DOMAIN counts : counts[i].scope = scope})
    IN IF k = 0
       THEN Append(counts, [scope |-> scope,
                            type_map |-> BumpType(<<>>, Get(lease, "type", "Unknown"))])
       ELSE [counts EXCEPT ![k].type_map = BumpType(@, @[1].ltype)]

\* lines 213-217: one iteration of the counting loop
CountLease(counts, lease) ==
    LET scope == Get(lease, "scope", "unknown")
        ltype == Get(lease, "type", "Unknown")
        k == First({i \in DOMAIN counts : counts[i].scope = scope})
    IN IF k = 0
       THEN Append(counts, [scope |-> scope, type_map |-> BumpType(<<>>, ltype)])
       ELSE [counts EXCEPT ![k].type_map = BumpType(@, ltype)]

\* lines 211-217
RECURSIVE CountLeases(_, _)
CountLeases(counts, leases) ==
    IF leases = <<>> THEN counts
    ELSE CountLeases(CountLease(counts, Head(leases)), Tail(leases))

\* lines 224-229: the samples, scope by scope and type by type
RECURSIVE DhcpSamples(_)
DhcpSamples(counts) ==
    IF counts = <<>> THEN <<>>
    ELSE [i \in 1..Len(counts[1].type_map) |->
             Sample(<<SERVER_LABEL, counts[1].scope, counts[1].type_map[i].ltype>>,
                    PyFloat(counts[1].type_map[i].count))]
         \o DhcpSamples(Tail(counts))

\* lines 209-230
DhcpFamilies(dhcp_leases_data) ==
    LET leases == Get(dhcp_leases_data, "leases", <<>>) IN
    IF Truthy(leases)
    THEN << Family("technitium_dhcp_leases_total", DhcpSamples(CountLeases(<<>>, leases))) >>
    ELSE <<>>

(***************************************************************************)
(* Section 4: top-N (lines 235-281).  The "hits" member of an item is a    *)
(* number [num |-> n] or a string that is not a number [str |-> s].        *)
(***************************************************************************)
TopTable ==
    << [stats_type |-> "TopClients", metric_name |-> "technitium_dns_top_client_hits",
        json_key |-> "topClients"],
       [stats_type |-> "TopDomains", metric_name |-> "technitium_dns_top_domain_hits",
        json_key |-> "topDomains"],
       [stats_type |-> "TopBlockedDomains",
        metric_name |-> "technitium_dns_top_blocked_domain_hits",
        json_key |-> "topBlockedDomains"] >>

IsNumber(h) == "num" \in DOMAIN h

\* str(e) of the ValueError that float(s) raises
FloatErrorMsg(s) == <<"could not convert string to float: ", "'">> \o s \o <<"'">>

\* lines 266-274: the sample of one item
TopSample(stats_type, item) ==
    Sample(IF stats_type = "TopClients"
           THEN <<SERVER_LABEL, Get(item, "name", ""), Get(item, "domain", "")>>
           ELSE <<SERVER_LABEL, Get(item, "name", "")>>,
           PyFloat(Get(item, "hits", [num |-> 0]).num))

\* lines 260-275: the statements of the try block that follow the call
TopBody(entry, data) ==
    IF ~IsDict(data)
    THEN Raise("AttributeError", ATTR_MSG)
    ELSE LET items == Get(data.v, entry.json_key, <<>>)
             bad == First({i \in DOMAIN items : ~IsNumber(Get(items[i], "hits", [num |-> 0]))})
         IN IF ~Truthy(items) THEN Return(<<>>, <<>>)
            ELSE IF bad # 0
                 THEN Raise("ValueError", FloatErrorMsg(items[bad]["hits"].str))
                 ELSE Return(<< Family(entry.metric_name,
                                       [i \in 1..Len(items) |->
                                           TopSample(entry.stats_type, items[i])]) >>,
                             <<>>)

(***************************************************************************)
(* Upstream outcomes the model draws from.                                 *)
(***************************************************************************)
Exc(kind, m) == [kind |-> kind, msg |-> m]
Json(b) == [kind |-> "json", body |-> b]
Ok(p) == Json(Obj([status |-> "ok", response |-> p]))

good_stats == [totalQueries |-> 100, totalNoError |-> 80, totalNxDomain |-> 20]

\* every way a request fails: the three exceptions with each message, a
\* body that is no object, an object without status, and a status that is
\* not "ok" (with and without a response member)
FailureOutcomes(msgs) ==
    {Exc(k, m) : k \in {"transport", "http_error", "not_json"}, m \in msgs}
    \cup {Json(Null), Json(Obj(EmptyDict)), Json(Obj([status |-> "error"])),
          Json(Obj([status |-> "error", response |-> Obj([stats |-> good_stats])]))}

\* status "ok": no response member, or one of the given payloads
OkOutcomes(payloads) ==
    {Json(Obj([status |-> "ok"]))} \cup {Ok(p) : p \in payloads}

LabelPool == <<"NoError", "ServerFailure", "NxDomain", "Refused">>
DataPool == <<80, 5, 20, 1>>
Chart(l, d) == [labels |-> SubSeq(LabelPool, 1, l), datasets |-> <<[data |-> SubSeq(DataPool, 1, d)]>>]

\* chart objects: empty, without datasets, with no dataset, with a dataset
\* without data, without labels, and with l labels and d values
ChartSet ==
    {EmptyDict, [labels |-> SubSeq(LabelPool, 1, 1)],
     [labels |-> SubSeq(LabelPool, 1, 1), datasets |-> <<>>],
     [labels |-> SubSeq(LabelPool, 1, 1), datasets |-> <<EmptyDict>>],
     [datasets |-> <<[data |-> SubSeq(DataPool, 1, 1)]>>]}
    \cup {Chart(l, d) : l \in 0..MaxChartLen, d \in 0..MaxChartLen}

\* a dashboard payload from its parts; an absent part is left out
Absent == [absent |-> TRUE]
StatsPayload(parts) ==
    [k \in {k \in DOMAIN parts : parts[k] # Absent} |-> parts[k]]

StatsObjects ==
    {EmptyDict, good_stats} \cup
    UNION {[K -> {0, 7}] : K \in SUBSET {"totalQueries", "totalDropped", "zones"}}

\* payloads in which at most one chart is drawn from all of ChartSet
RichStatsPayloads ==
    {StatsPayload([stats |-> s, queryResponseChartData |-> Absent,
                   queryTypeChartData |-> Absent, protocolTypeChartData |-> Absent])
        : s \in StatsObjects}
    \cup
    {StatsPayload([stats |-> good_stats, queryResponseChartData |-> t[1],
                   queryTypeChartData |-> t[2], protocolTypeChartData |-> t[3]])
        : t \in {t \in [1..3 -> ChartSet \cup {Absent}] :
                    Cardinality({i \in 1..3 : t[i] \notin {Absent, Chart(1, 1)}}) <= 1}}

CoarseStatsPayloads ==
    {Null, Obj(EmptyDict), Obj([stats |-> EmptyDict]),
     Obj([queryResponseChartData |-> Chart(2, 2)]),
     Obj([stats |-> good_stats]),
     Obj([stats |-> good_stats, queryResponseChartData |-> Chart(2, 1),
          queryTypeChartData |-> [labels |-> SubSeq(LabelPool, 1, 1), datasets |-> <<>>],
          protocolTypeChartData |-> [datasets |-> <<[data |-> SubSeq(DataPool, 1, 1)]>>]])}

zone_example ==
    [name |-> "example.com", type |-> "Primary", disabled |-> FALSE,
     internal |-> FALSE, soaSerial |-> 5]

CoarseZonePayloads ==
    {Null, Obj(EmptyDict), Obj([zones |-> <<>>]), Obj([zones |-> <<zone_example>>]),
     Obj([zones |-> <<[name |-> "b.test", disabled |-> TRUE, soaSerial |-> 120], EmptyDict>>])}

LeaseSet ==
    UNION {[K -> {"a"}] : K \in {{}}} \cup
    {[scope |-> s] : s \in {"A", "unknown"}} \cup
    {[type |-> t] : t \in {"Dynamic", "Reserved"}} \cup
    {[scope |-> s, type |-> t] : s \in {"A", "unknown"}, t \in {"Dynamic", "Reserved"}}

SeqsUpTo(S, n) == UNION {[1..k -> S] : k \in 0..n}

RichLeasePayloads == {Obj([leases |-> l]) : l \in SeqsUpTo(LeaseSet, MaxLeases)}

CoarseLeasePayloads ==
    {Null, Obj(EmptyDict), Obj([leases |-> <<>>]),
     Obj([leases |-> <<[scope |-> "A", type |-> "Dynamic"], [scope |-> "A", type |-> "Dynamic"],
                       [scope |-> "A", type |-> "Reserved"]>>])}

\* a top-N payload under the given key
TopPayload(key, items) == Obj([k \in {key} |-> items])

CoarseTopPayloads(key) ==
    {Null, Obj(EmptyDict), TopPayload(key, <<>>),
     TopPayload(key, <<[name |-> "10.0.0.1", domain |-> "host.lan", hits |-> [num |-> 12]],
                       [name |-> "10.0.0.2"]>>)}

BadTopPayloads(key, msgs) ==
    {TopPayload(key, <<[name |-> "10.0.0.1", hits |-> [str |-> m]]>>) : m \in msgs}

TopKeys == {TopTable[i].json_key : i \in 1..Len(TopTable)}

Alphabet == {"x", "D", "R"}
Tokens == SeqsUpTo(Alphabet, MaxTokenLen)
Messages == SeqsUpTo(Alphabet, MaxMsgLen)
FewMessages == {<<"x">>, <<"a", "x", "D">>}

\* the orchestration: every failure, coarse payloads, one token
UCoarse ==
    [tokens |-> {<<"x", "D">>},
     stats |-> FailureOutcomes(FewMessages) \cup OkOutcomes(CoarseStatsPayloads),
     zones |-> FailureOutcomes(FewMessages) \cup OkOutcomes(CoarseZonePayloads),
     dhcp |-> FailureOutcomes(FewMessages) \cup OkOutcomes(CoarseLeasePayloads),
     top |-> [k \in TopKeys |->
                FailureOutcomes(FewMessages) \cup OkOutcomes(CoarseTopPayloads(k))
                \cup {Ok(p) : p \in BadTopPayloads(k, FewMessages)}]]

\* the dashboard section in detail
UStats ==
    [tokens |-> {<<"x", "D">>},
     stats |-> {Ok(Obj(p)) : p \in RichStatsPayloads},
     zones |-> {Exc("transport", <<"x">>)},
     dhcp |-> {Exc("transport", <<"x">>)},
     top |-> [k \in TopKeys |-> {Exc("transport", <<"x">>)}]]

\* the DHCP section in detail
UDhcp ==
    [tokens |-> {<<"x", "D">>},
     stats |-> {Exc("transport", <<"x">>)},
     zones |-> {Exc("transport", <<"x">>)},
     dhcp |-> {Ok(p) : p \in RichLeasePayloads},
     top |-> [k \in TopKeys |-> {Exc("transport", <<"x">>)}]]

\* logging in detail: every token with every exception message
ULog ==
    [tokens |-> Tokens,
     stats |-> FailureOutcomes(Messages) \cup {Ok(Obj(EmptyDict))},
     zones |-> FailureOutcomes(Messages) \cup {Ok(Obj(EmptyDict))},
     dhcp |-> FailureOutcomes(Messages) \cup {Ok(Obj(EmptyDict))},
     top |-> [k \in TopKeys |->
                FailureOutcomes(Messages) \cup {Ok(Null)}
                \cup {Ok(p) : p \in BadTopPayloads(k, Messages)}]]

(***************************************************************************)
(* collect (lines 78-292).                                                 *)
(***************************************************************************)
NoCall == [query |-> "none"]
Called(query, o, r) == [query |-> query, outcome |-> o, raised |-> r.raised, ret |-> r.ret]

Init(U) ==
    /\ TECHNITIUM_TOKEN \in U.tokens
    /\ pc = "idle"
    /\ topIdx = 1
    /\ out = <<>>
    /\ calls = <<>>
    /\ last = NoCall
    /\ logged = <<>>

\* lines 78-79: a scrape calls collect, which starts from nothing
Scrape ==
    /\ pc \in {"idle", "done", "raised"}
    /\ pc' = "stats"
    /\ topIdx' = 1
    /\ out' = <<>>
    /\ calls' = <<>>
    /\ last' = NoCall
    /\ logged' = <<>>
    /\ UNCHANGED TECHNITIUM_TOKEN

\* the families of a section 1-3 payload, by the query that fetched it
\* (lines 88-177, 185-203, 209-230)
SectionFamilies(query, payload) ==
    CASE query = "stats" -> StatsFamilies(payload)
      [] query = "zones" -> ZoneFamilies(payload)
      [] query = "dhcp" -> DhcpFamilies(payload)

\* A section outside any try statement: the call, then the families of its
\* payload.  payload.get on a payload that is no dict raises AttributeError,
\* which nothing catches: it leaves collect.
Section(query, endpoint, outcomes, next) ==
    \E o \in outcomes :
        LET r == CallApi(TECHNITIUM_TOKEN, endpoint, o) IN
        /\ last' = Called(query, o, r)
        /\ calls' = Append(calls, [query |-> query, ret |-> r.ret])
        /\ logged' = r.log
        /\ IF r.raised \/ ~IsDict(r.ret)
           THEN pc' = "raised" /\ out' = out
           ELSE pc' = next /\ out' = out \o SectionFamilies(query, r.ret.v)
        /\ UNCHANGED <<TECHNITIUM_TOKEN, topIdx>>

\* lines 84-177
CollectStats(U) ==
    /\ pc = "stats"
    /\ Section("stats", "/api/dashboard/stats/get", U.stats, "zones")

\* lines 182-203
CollectZones(U) ==
    /\ pc = "zones"
    /\ Section("zones", "/api/zones/list", U.zones, "dhcp")

\* lines 208-230
CollectDhcp(U) ==
    /\ pc = "dhcp"
    /\ Section("dhcp", "/api/dhcp/leases/list", U.dhcp, "top")

\* lines 255-281: one iteration of the top-N loop, inside its try statement
CollectTop(U) ==
    /\ pc = "top"
    /\ LET entry == TopTable[topIdx] IN
       \E o \in U.top[entry.json_key] :
        LET r == CallApi(TECHNITIUM_TOKEN, "/api/dashboard/stats/getTop", o)
            b == IF r.raised THEN Raise(r.exc, r.msg) ELSE TopBody(entry, r.ret)
        IN
        /\ last' = Called(entry.stats_type, o, r)
        /\ calls' = Append(calls, [query |-> entry.stats_type, ret |-> r.ret])
        /\ IF b.kind = "return"
           THEN /\ out' = out \o b.value
                /\ logged' = r.log
                /\ pc' = IF topIdx = Len(TopTable) THEN "duration" ELSE "top"
           ELSE IF Caught(b.exc)
                THEN /\ out' = out
                     /\ logged' = r.log \o
                            <<[site |-> "collect", what |-> entry.stats_type,
                               error_msg |-> Sanitize(TECHNITIUM_TOKEN, b.msg)]>>
                     /\ pc' = IF topIdx = Len(TopTable) THEN "duration" ELSE "top"
                ELSE /\ out' = out
                     /\ logged' = r.log
                     /\ pc' = "raised"
        /\ topIdx' = IF topIdx = Len(TopTable) THEN topIdx ELSE topIdx + 1
    /\ UNCHANGED TECHNITIUM_TOKEN

\* lines 286-292: time.time() - start_t is whatever the clock reports
CollectDuration ==
    /\ pc = "duration"
    /\ \E elapsed \in 0..MaxElapsed :
        out' = Append(out, Family("technitium_scrape_duration_seconds",
                                  <<Sample(<<SERVER_LABEL>>, elapsed)>>))
    /\ pc' = "done"
    /\ UNCHANGED <<TECHNITIUM_TOKEN, topIdx, calls, last, logged>>

Next(U) ==
    \/ Scrape
    \/ CollectStats(U)
    \/ CollectZones(U)
    \/ CollectDhcp(U)
    \/ CollectTop(U)
    \/ CollectDuration

Spec == Init(UCoarse) /\ [][Next(UCoarse)]_vars
SpecStats == Init(UStats) /\ [][Next(UStats)]_vars
SpecDhcp == Init(UDhcp) /\ [][Next(UDhcp)]_vars
SpecLog == Init(ULog) /\ [][Next(ULog)]_vars

(***************************************************************************)
(* Vocabulary of the properties.                                           *)
(***************************************************************************)
UP == "technitium_up"
DURATION == "technitium_scrape_duration_seconds"
QUERIES == "technitium_dns_queries_window"
ZONE == "technitium_zone"
DHCP == "technitium_dhcp_leases_total"
ChartNames == {Charts[i][2] : i \in 1..Len(Charts)}
SimpleNames == {simple_map[i][1] : i \in 1..Len(simple_map)}
TopNames == {TopTable[i].metric_name : i \in 1..Len(TopTable)}
QueryOrder == <<"stats", "zones", "dhcp", "TopClients", "TopDomains", "TopBlockedDomains">>

Positions(name) == {i \in DOMAIN out : out[i].name = name}
Emitted(name) == Positions(name) # {}
TheFamily(name) == out[CHOOSE i \in Positions(name) : TRUE]
Finished == pc \in {"done", "raised"}

\* the upstream reply was a JSON object whose status is "ok"
StatusOk(o) ==
    /\ o.kind = "json"
    /\ IsDict(o.body)
    /\ "status" \in DOMAIN o.body.v
    /\ o.body.v["status"] = "ok"

\* C1: _call_api never raises; it returns {} for every failed outcome and
\* the nested response payload only when the status is "ok".
C1_CallApiDegradesToEmpty ==
    last # NoCall =>
        /\ ~last.raised
        /\ ~StatusOk(last.outcome) => last.ret = Obj(EmptyDict)
        /\ StatusOk(last.outcome) =>
              last.ret = IF "response" \in DOMAIN last.outcome.body.v
                         THEN last.outcome.body.v["response"]
                         ELSE Obj(EmptyDict)

\* a reply that is JSON but no object came back, and the call returned {}
C1_Witness ==
    /\ last # NoCall
    /\ last.outcome.kind = "json"
    /\ ~IsDict(last.outcome.body)
    /\ ~last.raised
    /\ last.ret = Obj(EmptyDict)
    /\ Len(logged) = 1

\* the text of the exception behind a log record of the last step: the
\* outcome's message or the AttributeError's in _call_api, and in the top-N
\* handler the AttributeError's or the ValueError's of the first bad item
RaisedText(rec) ==
    IF rec.site = "_call_api"
    THEN IF last.outcome.kind = "json" THEN ATTR_MSG ELSE last.outcome.msg
    ELSE TopBody(TopTable[CHOOSE i \in 1..Len(TopTable) :
                             TopTable[i].stats_type = last.query], last.ret).msg

\* C2: whenever the exception's text contains the non-empty token, the
\* logged error message does not contain the token.
C2_TokenNeverLogged ==
    \A i \in DOMAIN logged :
        (/\ logged[i].site \in {"_call_api", "collect"}
         /\ TECHNITIUM_TOKEN # <<>>
         /\ Contains(RaisedText(logged[i]), TECHNITIUM_TOKEN))
        => ~Contains(logged[i].error_msg, TECHNITIUM_TOKEN)

\* the families a returned payload gives rise to
FamiliesOf(query, ret) ==
    CASE query = "stats" -> StatsFamilies(ret.v)
      [] query = "zones" -> ZoneFamilies(ret.v)
      [] query = "dhcp" -> DhcpFamilies(ret.v)
      [] OTHER ->
            LET b == TopBody(TopTable[CHOOSE i \in 1..Len(TopTable) :
                                         TopTable[i].stats_type = query], ret)
            IN IF b.kind = "return" THEN b.value ELSE <<>>

\* C3: whatever fails, no exception leaves collect, all six queries are
\* issued in order, and every usable payload has its families in the output.
C3_FailureIsolated ==
    /\ pc # "raised"
    /\ pc = "done" =>
          /\ [i \in DOMAIN calls |-> calls[i].query] = QueryOrder
          /\ \A i \in DOMAIN calls :
                IsDict(calls[i].ret) =>
                    \A j \in DOMAIN FamiliesOf(calls[i].query, calls[i].ret) :
                        \E k \in DOMAIN out :
                            out[k] = FamiliesOf(calls[i].query, calls[i].ret)[j]

\* the payload the dashboard query returned is a non-empty object
StatsPayloadNonEmpty == IsDict(calls[1].ret) /\ Truthy(calls[1].ret.v)

C5_DurationOnceAndLast ==
    Finished =>
        /\ Cardinality(Positions(DURATION)) = 1
        /\ out[Len(out)].name = DURATION

\* C6 as stated: only the reachability and duration families may be empty.
C6_NoEmptyFamily ==
    \A i \in DOMAIN out :
        out[i].name \notin {UP, DURATION} => Len(out[i].samples) >= 1

\* C6 amended: every emitted family other than the three chart families has
\* at least one sample.
C6_NoEmptyFamilyButCharts ==
    \A i \in DOMAIN out :
        out[i].name \notin ChartNames => Len(out[i].samples) >= 1

\* a cycle that emitted the zone, DHCP and a top-N family
C6_Witness ==
    /\ pc = "done"
    /\ Emitted(ZONE)
    /\ Emitted(DHCP)
    /\ \E n \in TopNames : Emitted(n)
    /\ Emitted(QUERIES)

\* the "stats" member of the dashboard payload is empty or missing
StatsEmpty == IsDict(calls[1].ret) /\ ~Truthy(Get(calls[1].ret.v, "stats", EmptyDict))

\* C7: a finished cycle whose stats payload is empty has emitted
\* technitium_up = 0 and the duration family and none of the families of
\* sections 2-4; when all six queries failed the output is these two.
C7_EmptyStats ==
    (Finished /\ Len(calls) >= 1 /\ StatsEmpty) =>
        /\ Emitted(UP)
        /\ TheFamily(UP).samples[1].value = 0
        /\ Emitted(DURATION)
        /\ \A n \in SimpleNames \cup {QUERIES} \cup ChartNames : ~Emitted(n)
        /\ (\A i \in DOMAIN calls : calls[i].ret = Obj(EmptyDict)) =>
              [i \in DOMAIN out |-> out[i].name] = <<UP, DURATION>>

\* the lease list the DHCP query returned
Leases == Get(calls[3].ret.v, "leases", <<>>)
LeasePair(lease) == <<Get(lease, "scope", "unknown"), Get(lease, "type", "Unknown")>>
SamplePair(sample) == <<sample.labels[2], sample.labels[3]>>

RECURSIVE SumValues(_)
SumValues(samples) ==
    IF samples = <<>> THEN 0 ELSE Head(samples).value + SumValues(Tail(samples))

\* C8: once the DHCP query has returned, the DHCP family is absent for an
\* empty lease list; otherwise it has one sample per distinct (scope, type)
\* pair, valued with the number of leases of that pair, summing to the
\* number of leases.
C8_LeasesCountedByPair ==
    (Len(calls) >= 3 /\ IsDict(calls[3].ret)) =>
        IF Leases = <<>>
        THEN ~Emitted(DHCP)
        ELSE /\ Cardinality(Positions(DHCP)) = 1
             /\ LET samples == TheFamily(DHCP).samples IN
                /\ {SamplePair(samples[i]) : i \in DOMAIN samples}
                      = {LeasePair(Leases[i]) : i \in DOMAIN Leases}
                /\ \A i, j \in DOMAIN samples :
                      SamplePair(samples[i]) = SamplePair(samples[j]) => i = j
                /\ \A i \in DOMAIN samples :
                      /\ samples[i].labels[1] = SERVER_LABEL
                      /\ samples[i].value =
                            Cardinality({k \in DOMAIN Leases :
                                            LeasePair(Leases[k]) = SamplePair(samples[i])})
                /\ SumValues(samples) = Len(Leases)

\* three leases, two of one pair: two samples, valued 2 and 1
C8_Witness ==
    /\ Len(calls) >= 3
    /\ pc = "done"
    /\ Leases = <<[scope |-> "A", type |-> "Dynamic"], [scope |-> "A", type |-> "Reserved"],
                  [scope |-> "A", type |-> "Dynamic"]>>
    /\ Emitted(DHCP)
    /\ TheFamily(DHCP).samples =
          <<Sample(<<SERVER_LABEL, "A", "Dynamic">>, 2),
            Sample(<<SERVER_LABEL, "A", "Reserved">>, 1)>>

\* the ten categories and the counter each is read from
Categories ==
    <<"all", "no_error", "servfail", "nxdomain", "refused", "authoritative",
      "recursive", "cached", "blocked", "dropped">>
CounterOf ==
    [all |-> "totalQueries", no_error |-> "totalNoError", servfail |-> "totalServerFailure",
     nxdomain |-> "totalNxDomain", refused |-> "totalRefused",
     authoritative |-> "totalAuthoritative", recursive |-> "totalRecursive",
     cached |-> "totalCached", blocked |-> "totalBlocked", dropped |-> "totalDropped"]

\* the dashboard payload and its stats member
StatsData == calls[1].ret.v
Stats == Get(StatsData, "stats", EmptyDict)

\* C9: once the dashboard query has returned a non-empty stats object, the
\* query-category family is in the output once, with exactly the ten
\* categories, each valued with its counter, or 0 when the counter is absent.
C9_TenCategories ==
    (Len(calls) >= 1 /\ IsDict(calls[1].ret) /\ Stats # EmptyDict) =>
        /\ Cardinality(Positions(QUERIES)) = 1
        /\ LET samples == TheFamily(QUERIES).samples IN
           /\ Len(samples) = 10
           /\ \A c \in DOMAIN CounterOf :
                 \E i \in DOMAIN samples :
                    /\ samples[i].labels = <<SERVER_LABEL, c>>
                    /\ samples[i].value =
                          IF CounterOf[c] \in DOMAIN Stats THEN Stats[CounterOf[c]] ELSE 0

\* totalQueries=100, totalNoError=80, totalNxDomain=20 and nothing else
C9_Witness ==
    /\ Len(calls) >= 1
    /\ IsDict(calls[1].ret)
    /\ Stats = [totalQueries |-> 100, totalNoError |-> 80, totalNxDomain |-> 20]
    /\ Emitted(QUERIES)
    /\ [i \in 1..10 |-> TheFamily(QUERIES).samples[i].value]
          = <<100, 80, 0, 20, 0, 0, 0, 0, 0, 0>>
    /\ [i \in 1..10 |-> TheFamily(QUERIES).samples[i].labels[2]] = Categories

Min(a, b) == IF a <= b THEN a ELSE b

\* C10: a chart family is in the output only if its chart object is present
\* with at least one dataset, and then sample i pairs labels[i] with
\* datasets[0].data[i] for every i up to the shorter of the two arrays.
C10_ChartsZipToShorter ==
    (Len(calls) >= 1 /\ IsDict(calls[1].ret)) =>
        \A c \in 1..Len(Charts) :
            Emitted(Charts[c][2]) =>
                /\ Charts[c][1] \in DOMAIN StatsData
                /\ "datasets" \in DOMAIN StatsData[Charts[c][1]]
                /\ Len(StatsData[Charts[c][1]]["datasets"]) >= 1
                /\ LET chart == StatsData[Charts[c][1]]
                       labels == IF "labels" \in DOMAIN chart THEN chart["labels"] ELSE <<>>
                       first == chart["datasets"][1]
                       data == IF "data" \in DOMAIN first THEN first["data"] ELSE <<>>
                       samples == TheFamily(Charts[c][2]).samples
                   IN /\ Len(samples) = Min(Len(labels), Len(data))
                      /\ \A i \in DOMAIN samples :
                            /\ samples[i].labels = <<SERVER_LABEL, labels[i]>>
                            /\ samples[i].value = data[i]

\* two labels and one value: the family has the one sample of the first pair
C10_Witness ==
    /\ Len(calls) >= 1
    /\ IsDict(calls[1].ret)
    /\ "queryTypeChartData" \in DOMAIN StatsData
    /\ StatsData["queryTypeChartData"] = Chart(2, 1)
    /\ Emitted("technitium_dns_query_type_total")
    /\ TheFamily("technitium_dns_query_type_total").samples
          = <<Sample(<<SERVER_LABEL, "NoError">>, 80)>>
====
